---- MODULE Spec2Model ----
(***************************************************************************)
(* A model of bsan: state monitors (monitors/monitor.js), the gas-adjusted *)
(* wallet monitor (monitors/ethwallet.js), the aggregator DappState        *)
(* (monitors/state.js) and the two test-lifecycle wrappers                 *)
(* (contract.stateful in index.js, describeDapp).                          *)
(*                                                                         *)
(* Spec: one test thread that awaits every operation it starts; the chain  *)
(* changes only through the test's own transactions (wallet.call or a      *)
(* direct transaction), the monitors of an aggregator pass run one by one  *)
(* in any order.                                                           *)
(*                                                                         *)
(* SpecDapp: the same suite run by describeDapp.                           *)
(*                                                                         *)
(* SpecMon: the monitors alone, their reset(), checkDirty() and expect*()  *)
(* started without waiting for one another: every operation is a fetch    *)
(* that reads the chain and a continuation that runs later, and the chain  *)
(* changes in between.                                                     *)
(*                                                                         *)
(* SpecAgg: a script that drives the aggregator alone (reset, checkDirty,   *)
(* assertNoExceptions, expectations) while fetches can fail and the chain  *)
(* can be reverted; a checkDirty() that has thrown leaves the checks of    *)
(* the other groups running.                                               *)
(*                                                                         *)
(* SpecFun: the functions of arguments alone (the parameters call() hands  *)
(* to the operation, ContractState.fetchValue on what the accessor         *)
(* returned, dynamicEquals), applied to arguments drawn from small sets.   *)
(***************************************************************************)
EXTENDS Integers, Sequences, FiniteSets, TLC

\* ------------------------------------------------------------------ bounds
\* tests run by one suite
MaxTests == 2
\* transactions sent to the chain by one suite
MaxTxns == 1
\* aggregator checkDirty() passes started by one test body
MaxChecks == 2
\* SpecMon: monitor operations started
MaxStarted == 3
\* SpecMon: changes of the chain
MaxChanges == 1

\* --------------------------------------------------------------- JS values
\* A JavaScript value: its kind, and its number or string.
BN(n) == [k |-> "bn", n |-> n, s |-> ""]
Str(s) == [k |-> "string", n |-> 0, s |-> s]
Bool(b) == [k |-> "boolean", n |-> IF b THEN 1 ELSE 0, s |-> ""]
Undefined == [k |-> "undefined", n |-> 0, s |-> ""]
Null == [k |-> "null", n |-> 0, s |-> ""]
False == Bool(FALSE)

\* A structured value (a decoded struct, an options object): its own keys in
\* the order Object.keys gives them, and their values.
Obj(keys, vals) == [k |-> "object", n |-> 0, s |-> "", keys |-> keys, vals |-> vals]

\* web3.utils.isBN
IsBN(v) == v.k = "bn"
\* typeof: a BN and null are objects
TypeOf(v) == IF v.k \in {"bn", "null"} THEN "object" ELSE v.k
\* v == null || v == undefined
IsNullish(v) == v.k \in {"null", "undefined"}

\* v has own properties the model keeps (a big integer's are its own).
IsObj(v) == v.k = "object"
HasProps(v) == "keys" \in DOMAIN v

\* The place of key among the keys of v, 0 when it is not one.
KeyIndex(v, key) ==
  IF ~HasProps(v) THEN 0
  ELSE IF \E i \in 1..Len(v.keys) : v.keys[i] = key
    THEN CHOOSE i \in 1..Len(v.keys) : v.keys[i] = key
  ELSE 0

\* v[key] of a value that is not null or undefined: undefined when v has no
\* such property
Get(v, key) == IF KeyIndex(v, key) = 0 THEN Undefined ELSE v.vals[KeyIndex(v, key)]

\* v after v[key] = val: a property is added to an object that has none of
\* that name, a big integer included
Put(v, key, val) ==
  IF KeyIndex(v, key) # 0 THEN [v EXCEPT !.vals[KeyIndex(v, key)] = val]
  ELSE IF HasProps(v)
    THEN [v EXCEPT !.keys = Append(@, key), !.vals = Append(@, val)]
  ELSE [k |-> v.k, n |-> v.n, s |-> v.s, keys |-> <<key>>, vals |-> <<val>>]

\* ---------------------------------------------------------------- monitors
\* The groups of the README's DappState, each in key order.
wallets == <<"account0">>
erc20 == <<"token0">>
contract == <<"myContractOwner">>
\* DappState.all
all == <<wallets, erc20, contract>>

Range(q) == {q[i] : i \in 1..Len(q)}
Wallets == Range(wallets)
Monitors == Range(wallets) \cup Range(erc20) \cup Range(contract)
Groups == 1..Len(all)
GroupOf(m) == CHOOSE g \in Groups : m \in Range(all[g])

\* monitor.type()
Type(m) ==
  IF m \in Range(wallets) THEN "eth-wallet"
  ELSE IF m \in Range(erc20) THEN "erc20-balance"
  ELSE "contract-state"

\* The address an account's wallet monitor watches.
Address(w) == Str(w)

\* ------------------------------------------------------------- the inputs
StartBalances == {100}
CallValues == {0, 10}
GasCosts == {0, 2}
Deltas == {0, 2, 10, 12}
Outcomes == {"ok", "txn-revert", "txn-error"}
Owners == {Str("account0"), Str("account4")}

VARIABLES
  live,         \* the chain: the value each monitor's fetchValue() reads
  lastValue,    \* StateMonitor.lastValue
  dirty,        \* StateMonitor.dirty
  dirtyValue,   \* StateMonitor.dirtyValue
  expectedGas,  \* ETHAddress.expectedGas (wallet monitors)
  exceptions,   \* DappState.exceptions
  mode,         \* which wrapper runs the suite: "stateful" or "describeDapp"
  pc,           \* where the test thread is
  tests,        \* tests started
  txns,         \* transactions sent so far
  checks,       \* checkDirty() passes the current test body has started
  cur,          \* the wallet whose call() is in flight
  aggGroup,     \* reset(): the group being reset
  aggTodo,      \* reset()/checkDirty(): monitors whose promise is pending
  aggRes,       \* _checkDirty: the settled results, per monitor
  aggErr,       \* checkDirty(): the Error of the group that rejected first
  late,         \* monitor checks still pending of a checkDirty() that has
                \* already thrown to its caller, and their group's results
  failing,      \* SpecAgg: monitors whose fetchValue() rejects now
  snapshot,     \* describeDapp: the chain at takeSnapshot()
  last,         \* the operation that completed last, and how (for a
                \* checkDirty() of the test, arg is the length of exceptions
                \* when it began)
  hist,         \* per wallet: what happened to it since lastValue was accepted
  found,        \* an aggregator checkDirty() saw drift since the last reset()
  endDrift,     \* monitors that had drifted when the test body ended
  threw,        \* the test body ended by throwing
  tasks,        \* SpecMon: the monitor operations in flight
  started,      \* SpecMon: monitor operations started
  changes,      \* SpecMon: changes of the chain so far
  settled,      \* SpecMon: per monitor, lastValue was read by a reset() and
                \* the chain has not changed since that read
  checked,      \* SpecMon: the checkDirty() that ran last, while no reset()
                \* or expect() has written its monitor since
  input,        \* SpecFun: the function applied last and its arguments
  output        \* SpecFun: what it returned or threw

vars == <<live, lastValue, dirty, dirtyValue, expectedGas, exceptions, mode, pc,
          tests, txns, checks, cur, aggGroup, aggTodo, aggRes, aggErr, late,
          failing, snapshot, last,
          hist, found, endDrift, threw, tasks, started, changes, settled,
          checked, input, output>>

monVars == <<lastValue, dirty, dirtyValue, expectedGas>>
aggVars == <<aggGroup, aggTodo, aggRes, aggErr, late>>
countVars == <<tests, txns, checks>>

chainVars == <<live, snapshot>>
ghostVars == <<hist, found, endDrift, threw>>
funVars == <<input, output>>
\* what a suite leaves alone
monRun == <<tasks, started, changes, settled, checked, funVars, failing>>
\* what the monitors alone leave alone
suiteVars == <<exceptions, mode, pc, tests, txns, checks, cur, aggGroup, aggTodo,
               aggRes, aggErr, late, failing, snapshot, hist, found, endDrift,
               threw, funVars>>
\* what the functions leave alone
stateVars == <<live, lastValue, dirty, dirtyValue, expectedGas, exceptions, mode,
               pc, tests, txns, checks, cur, aggGroup, aggTodo, aggRes, aggErr,
               late, failing, snapshot,
               last, hist, found, endDrift, threw, tasks, started, changes,
               settled, checked>>

\* ------------------------------------------------------ monitor operations
\* StateMonitor.equals (big integers only) and ContractState.equals
\* (dynamicEquals, on the scalar kinds): "true", "false" or "throw".
\* Object.keys of an object that is not null: a big integer's own fields
\* (bn.js: negative, words, length, red) come before any set on it later.
BNFields == <<"negative", "words", "length", "red">>
ObjectKeys(v) ==
  IF IsBN(v) THEN BNFields \o (IF HasProps(v) THEN v.keys ELSE <<>>)
  ELSE v.keys

\* a[key] for a key of Object.keys(a); a small big integer is one word
Prop(v, key) ==
  IF IsBN(v) /\ key = "negative" THEN [k |-> "number", n |-> 0, s |-> ""]
  ELSE IF IsBN(v) /\ key = "length" THEN [k |-> "number", n |-> 1, s |-> ""]
  ELSE IF IsBN(v) /\ key = "red" THEN Null
  ELSE IF IsBN(v) /\ key = "words"
    THEN Obj(<<"0">>, <<[k |-> "number", n |-> v.n, s |-> ""]>>)
  ELSE Get(v, key)

Includes(keys, key) == \E i \in 1..Len(keys) : keys[i] = key

\* dynamicEquals: "true", "false", or "throw". Object.keys(null) throws; the
\* key counts are compared before any key is skipped.
RECURSIVE DynamicEquals(_, _)
RECURSIVE KeysEqualFrom(_, _, _)
DynamicEquals(a, b) ==
  IF TypeOf(a) # TypeOf(b) THEN "throw"
  ELSE IF IsBN(a) /\ IsBN(b) THEN (IF a.n = b.n THEN "true" ELSE "false")
  ELSE IF TypeOf(a) \in {"string", "number", "boolean"}
    THEN (IF a = b THEN "true" ELSE "false")
  ELSE IF TypeOf(a) = "object"
    THEN IF a.k = "null" \/ b.k = "null" THEN "throw"
         ELSE IF Len(ObjectKeys(a)) # Len(ObjectKeys(b)) THEN "false"
         ELSE KeysEqualFrom(a, b, 1)
  ELSE "throw"

\* The loop over keysA from its i-th key on
KeysEqualFrom(a, b, i) ==
  IF i > Len(ObjectKeys(a)) THEN "true"
  ELSE LET key == ObjectKeys(a)[i] IN
       IF key \in {"0", "1", "2", "3"} THEN KeysEqualFrom(a, b, i + 1)
       ELSE IF ~Includes(ObjectKeys(b), key) THEN "false"
       ELSE LET r == DynamicEquals(Prop(a, key), Prop(b, key)) IN
            IF r = "true" THEN KeysEqualFrom(a, b, i + 1) ELSE r

Equals(m, a, b) ==
  IF m \in Range(contract) THEN DynamicEquals(a, b)
  ELSE IF ~(IsBN(a) /\ IsBN(b)) THEN "throw"
  ELSE IF a.n = b.n THEN "true" ELSE "false"

\* asBN: a big integer as it is, a number converted
AsBN(v) == IF IsBN(v) THEN v ELSE BN(v.n)

\* monitor.serializeValue: toString() of a big integer, JSON.stringify of a
\* contract field
SerializeValue(m, v) ==
  IF m \in Range(contract)
    THEN (CASE v.k = "string" -> "\"" \o v.s \o "\""
            [] v.k = "boolean" -> (IF v.n = 1 THEN "true" ELSE "false")
            [] OTHER -> "null")
    ELSE (CASE v.k = "bn" -> ToString(v.n)
            [] v.k = "boolean" -> (IF v.n = 1 THEN "true" ELSE "false")
            [] OTHER -> v.s)

\* A faulty variant: adjustExpectation that leaves the expected gas out
AdjustExpectationIgnoringGas(m, value) == value

\* A faulty variant: adjustExpectation that adds the expected gas
AdjustExpectationAddingGas(m, value) ==
  IF m \in Wallets /\ ~IsNullish(expectedGas[m])
    THEN BN(value.n + expectedGas[m].n)
    ELSE value

\* adjustExpectation: the wallet monitor subtracts the gas it expects
AdjustExpectation(m, value) ==
  IF m \in Wallets /\ ~IsNullish(expectedGas[m])
    THEN BN(value.n - expectedGas[m].n)
    ELSE value

\* A faulty variant: expectGas that adds the amount twice
ExpectGasTwice(eg, gasAmount) ==
  BN((IF IsNullish(eg) THEN 0 ELSE eg.n) + gasAmount + gasAmount)

\* A faulty variant: expectGas that records nothing
ExpectGasForgotten(eg, gasAmount) == eg

\* expectGas: the running sum, lazily zero
ExpectGas(eg, gasAmount) ==
  BN((IF IsNullish(eg) THEN 0 ELSE eg.n) + gasAmount)

\* A faulty variant: reset() that keeps the value it holds instead of fetching
ResetValueStale(m, toValue, fetched) ==
  IF ~IsNullish(toValue) THEN toValue ELSE lastValue[m]

\* The value reset(toValue) accepts: ETHAddress.reset() takes no argument and
\* always fetches; the base reset fetches when toValue is null.
ResetValue(m, toValue, fetched) ==
  IF m \in Wallets THEN fetched
  ELSE IF ~IsNullish(toValue) THEN toValue
  ELSE fetched

\* StateMonitor.reset: accept a value, clear dirty and dirtyValue
BaseReset(m, toValue, fetched) ==
  /\ lastValue' = [lastValue EXCEPT ![m] = ResetValue(m, toValue, fetched)]
  /\ dirty' = [dirty EXCEPT ![m] = FALSE]
  /\ dirtyValue' = [dirtyValue EXCEPT ![m] = False]

\* A faulty variant: a wallet monitor's reset that keeps expectedGas
MonitorResetKeepingGas(m, toValue, fetched) ==
  /\ BaseReset(m, toValue, fetched)
  /\ UNCHANGED expectedGas

\* reset, awaited: the wallet monitor's goes on to clear expectedGas
MonitorReset(m, toValue, fetched) ==
  /\ BaseReset(m, toValue, fetched)
  /\ expectedGas' = IF m \in Wallets THEN [expectedGas EXCEPT ![m] = Null]
                    ELSE expectedGas

\* A faulty variant: checkDirty() that never reports drift
CheckDirtyResultNeverDirty(m, value) == "false"

\* What checkDirty() settles with for a fetched value: "true", "false", or
\* "error" when fetchValue() rejects or equals throws.
CheckDirtyResult(m, value) ==
  CASE m \in failing -> "error"
    [] Equals(m, value, lastValue[m]) = "throw" -> "error"
    [] Equals(m, value, lastValue[m]) = "false" -> "true"
    [] OTHER -> "false"

\* A faulty variant: checkDirty that accepts the value it fetched
MonitorCheckDirtyAccepting(m, value) ==
  /\ dirty' = IF CheckDirtyResult(m, value) = "error" THEN dirty
              ELSE [dirty EXCEPT ![m] = (CheckDirtyResult(m, value) = "true")]
  /\ dirtyValue' = IF CheckDirtyResult(m, value) = "true"
                   THEN [dirtyValue EXCEPT ![m] = value]
                   ELSE dirtyValue
  /\ lastValue' = [lastValue EXCEPT ![m] = value]
  /\ UNCHANGED expectedGas

\* A faulty variant: checkDirty that does not keep the value it found
MonitorCheckDirtyValueDropped(m, value) ==
  /\ dirty' = IF CheckDirtyResult(m, value) = "error" THEN dirty
              ELSE [dirty EXCEPT ![m] = (CheckDirtyResult(m, value) = "true")]
  /\ UNCHANGED <<dirtyValue, lastValue, expectedGas>>

\* checkDirty: set dirty, and dirtyValue when dirty
MonitorCheckDirty(m, value) ==
  /\ dirty' = IF CheckDirtyResult(m, value) = "error" THEN dirty
              ELSE [dirty EXCEPT ![m] = (CheckDirtyResult(m, value) = "true")]
  /\ dirtyValue' = IF CheckDirtyResult(m, value) = "true"
                   THEN [dirtyValue EXCEPT ![m] = value]
                   ELSE dirtyValue
  /\ UNCHANGED <<lastValue, expectedGas>>

\* How expect(value) ends for a fetched value.
ExpectOutcome(m, value, actual) ==
  LET a == IF actual.k = "number" THEN AsBN(actual) ELSE actual
      e0 == AdjustExpectation(m, IF m \in Range(contract) THEN value ELSE AsBN(value))
      e == IF e0.k = "number" THEN AsBN(e0) ELSE e0
  IN  IF m \in failing THEN "error"
      ELSE IF TypeOf(a) # TypeOf(e) THEN "type-mismatch"
      ELSE IF Equals(m, a, e) = "throw" THEN "error"
      ELSE IF Equals(m, a, e) = "false" THEN "assert-fail"
      ELSE "ok"

\* -------------------------------------------------------------- bookkeeping
\* A wallet since its lastValue was accepted: the value accepted, the mined
\* calls made through it, the value they sent and the gas they cost.
H0 == [base |-> Undefined, calls |-> 0, sent |-> 0, gas |-> 0]

NoOp == [op |-> "none", mon |-> "", arg |-> Null, out |-> "", pre |-> H0,
         fresh |-> FALSE]

\* The record of a completed operation of the test body.
Done(op, m, arg, out) ==
  [op |-> op, mon |-> m, arg |-> arg, out |-> out,
   pre |-> IF m \in Wallets THEN hist[m] ELSE H0, fresh |-> FALSE]

\* The record of a completed hook.
Hook(op, out) == [NoOp EXCEPT !.op = op, !.out = out]

\* Monitors whose live value is not the value last accepted.
Drift == {m \in Monitors : live[m] # lastValue[m]}

Accepted(m) ==
  IF m \in Wallets THEN [hist EXCEPT ![m] = [H0 EXCEPT !.base = lastValue'[m]]]
  ELSE hist

\* ------------------------------------------------------------- aggregator
\* A faulty variant: reset() that keeps the list
KeptExceptions == exceptions

\* reset() ends with this.exceptions = []
ClearedExceptions == <<>>

\* A faulty variant: assertNoExceptions() that tolerates one entry
AssertFailsAboveOne(q) == Len(q) > 1

\* assertNoExceptions() throws when the list q is not empty
AssertFails(q) == Len(q) > 0

\* exceptions.map((exc, idx) => '#' + idx + ': ' + exc.message) for the
\* first n entries of q, each line after a line break
RECURSIVE Numbered(_, _)
Numbered(q, n) ==
  IF n = 0 THEN ""
  ELSE Numbered(q, n - 1) \o "\n#" \o ToString(n - 1) \o ": " \o q[n]

\* A faulty variant: a message that lists the newest entry first
AssertMessageNewestFirst(q) ==
  "The following exceptions occurred:"
    \o Numbered([i \in 1..Len(q) |-> q[Len(q) + 1 - i]], Len(q))

\* The message of the Error assertNoExceptions() throws for the list q.
AssertMessage(q) == "The following exceptions occurred:" \o Numbered(q, Len(q))

\* `if (state.exceptions)`: an array, empty or not, is truthy
Truthy(array) == TRUE

\* ganache-time-traveler's revertToSnapshot: the chain goes back
Revert == live' = snapshot

\* No result settled yet
Pending == [m \in Monitors |-> "pending"]

\* No check is left over from a checkDirty() that has thrown
NoLate == [todo |-> {}, res |-> Pending]

\* The stack of the Error a failing fetchValue() rejects with
FetchError == "Error: fetchValue failed"

\* The Error reset() and _checkDirty throw for a monitor.
FailedMessage(m) ==
  "Failed to check value of " \o Type(m) \o "." \o m \o ": " \o FetchError

\* The first key of a group, in key order, whose result in res is an Error;
\* "" when there is none
FirstError(keys, res) ==
  LET errs == {i \in 1..Len(keys) : res[keys[i]] = "error"}
  IN IF errs = {} THEN ""
     ELSE keys[CHOOSE i \in errs : \A j \in errs : i <= j]

\* A faulty variant: reset() starts every group's monitors at once
StartResetAllGroups ==
  /\ aggGroup' = Len(all)
  /\ aggTodo' = Monitors
  /\ UNCHANGED <<aggRes, aggErr, late>>

\* DappState.reset() begins: the first group's monitors are reset together.
StartReset ==
  /\ aggGroup' = 1
  /\ aggTodo' = Range(all[1])
  /\ UNCHANGED <<aggRes, aggErr, late>>

\* DappState.checkDirty() begins: every group's _checkDirty starts, and in it
\* every monitor's checkDirty().
StartCheck ==
  /\ aggGroup' = 0
  /\ aggTodo' = Monitors
  /\ aggRes' = Pending
  /\ UNCHANGED <<aggErr, late>>

ResetPcs == {"be_reset", "ae_reset", "u_reset"}
CheckPcs == {"call_check", "u_check", "ae_check", "dae_check"}

\* One monitor's reset() inside DappState.reset() settles; a reset whose
\* fetch rejects writes nothing. When it is the last of its group,
\* Promise.all resolves and the results are walked: on the first Error
\* reset() throws, exceptions left as it is and the later groups not reset.
\* Otherwise the next group is started, or, after the last group,
\* exceptions is cleared and reset() returns to whoever called it
\* (describeDapp's beforeEach then takes the snapshot).
AggResetMonitor(m) ==
  LET res == [aggRes EXCEPT ![m] = IF m \in failing THEN "error" ELSE "false"]
      bad == FirstError(all[GroupOf(m)], res)
  IN
  /\ pc \in ResetPcs
  /\ m \in aggTodo
  /\ IF m \in failing
       THEN UNCHANGED <<monVars, hist>>
       ELSE MonitorReset(m, Null, live[m]) /\ hist' = Accepted(m)
  /\ IF aggTodo # {m}
       THEN /\ aggTodo' = aggTodo \ {m}
            /\ aggRes' = res
            /\ UNCHANGED <<aggGroup, exceptions, pc, last, snapshot, found>>
       ELSE IF bad # ""
       THEN /\ aggTodo' = {}
            /\ aggRes' = Pending
            /\ pc' = IF pc = "u_reset" THEN "body" ELSE "aborted"
            /\ last' = CASE pc = "u_reset" ->
                             Done("reset", bad, Str(FailedMessage(bad)), "hard-error")
                         [] pc = "ae_reset" -> Hook("afterEach", "hard-error")
                         [] OTHER -> Hook("beforeEach", "hard-error")
            /\ UNCHANGED <<aggGroup, exceptions, snapshot, found>>
       ELSE IF aggGroup < Len(all)
       THEN /\ aggGroup' = aggGroup + 1
            /\ aggTodo' = Range(all[aggGroup + 1])
            /\ aggRes' = Pending
            /\ UNCHANGED <<exceptions, pc, last, snapshot, found>>
       ELSE /\ exceptions' = ClearedExceptions
            /\ found' = FALSE
            /\ aggTodo' = {}
            /\ aggRes' = Pending
            /\ UNCHANGED aggGroup
            /\ pc' = IF pc = "ae_reset" THEN "beforeEach" ELSE "body"
            /\ last' = CASE pc = "u_reset" -> Done("reset", "", Null, "ok")
                         [] pc = "ae_reset" -> Hook("afterEach", "ok")
                         [] OTHER -> last
            /\ snapshot' = IF pc = "be_reset" /\ mode = "describeDapp"
                             THEN live ELSE snapshot
  /\ UNCHANGED <<mode, monRun, countVars, cur, aggErr, late, live, endDrift, threw>>

\* A faulty variant: a diagnostic with the two values swapped
DiagnosticSwapped(m, lastVal, dirtyVal) ==
  Type(m) \o "." \o m \o ": un-asserted state change detected ("
    \o SerializeValue(m, dirtyVal) \o ") => (" \o SerializeValue(m, lastVal) \o ")"

\* The diagnostic _checkDirty pushes for a dirty monitor.
Diagnostic(m, lastVal, dirtyVal) ==
  Type(m) \o "." \o m \o ": un-asserted state change detected ("
    \o SerializeValue(m, lastVal) \o ") => (" \o SerializeValue(m, dirtyVal) \o ")"

\* A faulty variant: the walk pushes a diagnostic for clean monitors too
RECURSIVE PushedForClean(_, _, _, _)
PushedForClean(keys, n, res, dv) ==
  IF n = 0 THEN <<>>
  ELSE IF \E i \in 1..(n - 1) : res[keys[i]] = "error"
    THEN PushedForClean(keys, n - 1, res, dv)
  ELSE IF res[keys[n]] \in {"true", "false"}
    THEN Append(PushedForClean(keys, n - 1, res, dv),
                Diagnostic(keys[n], lastValue[keys[n]], dv[keys[n]]))
  ELSE PushedForClean(keys, n - 1, res, dv)

\* The loop of _checkDirty over the first n settled results res of a group's
\* keys: what it pushes, until the first result that is an Error. dv is
\* dirtyValue of every monitor when the loop runs.
RECURSIVE Pushed(_, _, _, _)
Pushed(keys, n, res, dv) ==
  IF n = 0 THEN <<>>
  ELSE IF \E i \in 1..(n - 1) : res[keys[i]] = "error" THEN Pushed(keys, n - 1, res, dv)
  ELSE IF res[keys[n]] = "true"
    THEN Append(Pushed(keys, n - 1, res, dv),
                Diagnostic(keys[n], lastValue[keys[n]], dv[keys[n]]))
  ELSE Pushed(keys, n - 1, res, dv)

\* One monitor's checkDirty() inside _checkDirty settles. When it is the last
\* of its group, the group's Promise.all resolves and _checkDirty walks the
\* group's results, pushing a diagnostic for every dirty monitor until the
\* first Error, on which it throws: the first group to throw rejects
\* checkDirty().
AggCheckMonitor(m) ==
  LET g == GroupOf(m)
      res == [aggRes EXCEPT ![m] = CheckDirtyResult(m, live[m])]
      walked == Range(all[g]) \cap aggTodo = {m}
      bad == FirstError(all[g], res)
  IN
  /\ pc \in CheckPcs
  /\ m \in aggTodo
  /\ MonitorCheckDirty(m, live[m])
  /\ aggRes' = res
  /\ aggTodo' = aggTodo \ {m}
  /\ found' = (found \/ live[m] # lastValue[m])
  /\ exceptions' = IF walked
                     THEN exceptions \o Pushed(all[g], Len(all[g]), res, dirtyValue')
                     ELSE exceptions
  /\ aggErr' = IF walked /\ bad # "" /\ aggErr = "" THEN FailedMessage(bad) ELSE aggErr
  /\ UNCHANGED <<mode, monRun, pc, countVars, cur, aggGroup, late, live, snapshot, last,
                 hist, endDrift, threw>>

\* A monitor's checkDirty() settles after the checkDirty() that started it
\* has thrown: it writes the monitor as ever, and its group's walk still
\* pushes diagnostics.
LateCheckMonitor(m) ==
  LET g == GroupOf(m)
      res == [late.res EXCEPT ![m] = CheckDirtyResult(m, live[m])]
  IN
  /\ m \in late.todo
  /\ MonitorCheckDirty(m, live[m])
  /\ late' = IF late.todo = {m} THEN NoLate
             ELSE [todo |-> late.todo \ {m}, res |-> res]
  /\ found' = (found \/ live[m] # lastValue[m])
  /\ exceptions' = IF Range(all[g]) \cap late.todo = {m}
                     THEN exceptions \o Pushed(all[g], Len(all[g]), res, dirtyValue')
                     ELSE exceptions
  /\ UNCHANGED <<mode, monRun, pc, countVars, cur, aggGroup, aggTodo, aggRes, aggErr,
                 live, snapshot, last, hist, endDrift, threw>>

\* checkDirty() returns to whoever called it (call(), the test body, or an
\* afterEach hook): when every group has settled, or, Promise.all rejecting
\* with the first rejection, as soon as one group has thrown, the checks of
\* the other groups still pending (one such leftover at a time is kept). The
\* caller goes on: call() and the hooks with assertNoExceptions().
AggCheckReturn ==
  LET hard == aggErr # ""
      fails == hard \/ AssertFails(exceptions)
      out == IF hard THEN "hard-error" ELSE "dirty-error"
      hook == pc \in {"ae_check", "dae_check"}
  IN
  /\ pc \in CheckPcs
  /\ aggTodo = {} \/ (hard /\ late.todo = {})
  /\ pc' = CASE pc = "u_check" -> "body"
              [] pc = "call_check" -> (IF fails THEN "body" ELSE "call_exec")
              [] OTHER -> (IF fails THEN "aborted" ELSE "ae_reset")
  /\ last' = CASE pc = "u_check" ->
                   (IF hard THEN Done("checkDirty", "", Str(aggErr), out)
                    ELSE Done("checkDirty", "", last.arg, "ok"))
                [] pc = "call_check" -> (IF fails THEN Done("call", cur, Null, out) ELSE last)
                [] OTHER -> (IF fails THEN Hook("afterEach", out) ELSE last)
  /\ aggRes' = Pending
  /\ aggErr' = ""
  /\ late' = IF aggTodo # {} THEN [todo |-> aggTodo, res |-> aggRes] ELSE late
  /\ IF hook /\ ~fails
       THEN aggGroup' = 1 /\ aggTodo' = Range(all[1])
       ELSE aggTodo' = {} /\ UNCHANGED aggGroup
  \* describeDapp's else branch reverts the chain between checkDirty() and
  \* assertNoExceptions()
  /\ IF pc = "dae_check" /\ ~hard THEN Revert ELSE UNCHANGED live
  /\ UNCHANGED <<monVars, exceptions, mode, monRun, countVars, cur, snapshot, hist, found,
                 endDrift, threw>>

\* ------------------------------------------------------- the test lifecycle
\* beforeEach of both wrappers: await state.reset()
BeforeEach ==
  /\ pc = "beforeEach"
  /\ tests < MaxTests
  /\ tests' = tests + 1
  /\ checks' = 0
  /\ pc' = "be_reset"
  /\ last' = NoOp
  /\ endDrift' = {}
  /\ threw' = FALSE
  /\ StartReset
  /\ UNCHANGED <<monVars, exceptions, mode, monRun, txns, cur, live, snapshot, hist, found>>

\* The test body returns.
BodyReturns ==
  /\ pc = "body"
  /\ ~(last.op \in {"expect", "expectOnlyConsumedGas", "expectFallsBy", "expectRisesBy",
                     "expectLessThan"}
        /\ last.out # "ok")
  /\ pc' = "afterEach"
  /\ endDrift' = Drift
  /\ last' = NoOp
  /\ threw' = FALSE
  /\ UNCHANGED <<monVars, exceptions, mode, monRun, countVars, cur, aggVars, live,
                 snapshot, hist, found>>

\* The test body lets the failure of its last operation escape.
BodyThrows ==
  /\ pc = "body"
  /\ last.op # "none"
  /\ last.out # "ok"
  /\ pc' = "afterEach"
  /\ endDrift' = Drift
  /\ last' = NoOp
  /\ threw' = TRUE
  /\ UNCHANGED <<monVars, exceptions, mode, monRun, countVars, cur, aggVars, live,
                 snapshot, hist, found>>

\* afterEach of contract.stateful: checkDirty, assertNoExceptions, reset.
StatefulAfterEach ==
  /\ pc = "afterEach"
  /\ mode = "stateful"
  /\ pc' = "ae_check"
  /\ StartCheck
  /\ UNCHANGED <<monVars, exceptions, mode, monRun, countVars, cur, live, snapshot, last,
                 ghostVars>>

\* afterEach of describeDapp: `if (state.exceptions)` only reverts the chain;
\* its else branch checks, reverts, asserts and resets.
DappAfterEach ==
  /\ pc = "afterEach"
  /\ mode = "describeDapp"
  /\ IF Truthy(exceptions)
       THEN /\ Revert
            /\ pc' = "beforeEach"
            /\ last' = Hook("afterEach", "ok")
            /\ UNCHANGED aggVars
       ELSE /\ pc' = "dae_check"
            /\ StartCheck
            /\ UNCHANGED <<live, last>>
  /\ UNCHANGED <<monVars, exceptions, mode, monRun, countVars, cur, snapshot, hist, found,
                 endDrift, threw>>

\* ----------------------------------------------- operations of a test body
ExpectOps == {"expect", "expectOnlyConsumedGas", "expectFallsBy", "expectRisesBy",
              "expectLessThan"}

\* An expectation of the test body has failed: the failure ends the test.
ExpectFailed == last.op \in ExpectOps /\ last.out # "ok"

\* The test body is between two operations.
InBody == pc = "body" /\ ~ExpectFailed

Num(n) == [k |-> "number", n |-> n, s |-> ""]

\* The amounts a test passes to expectFallsBy and to expectRisesBy.
FallDeltas(m) == IF m \in Wallets THEN Deltas ELSE {1}
RiseDeltas(m) == IF m \in Wallets THEN {10} ELSE {1}

\* The values a test passes to expect(): for a balance, the accepted value
\* less (wallet) or plus (token) a small amount.
ExpectArgs(m) ==
  IF m \in Range(contract) THEN Owners \cup {Num(1)}
  ELSE IF ~IsBN(lastValue[m]) THEN {BN(0)}
  ELSE IF m \in Wallets THEN {BN(lastValue[m].n - d) : d \in Deltas}
  ELSE {BN(lastValue[m].n + d) : d \in {0, 1}}

\* A faulty variant: expect(value) that accepts the fetched value even when
\* the comparison fails
ExpectAsAcceptingAnyway(op, m, arg, value) ==
  /\ InBody
  /\ last' = Done(op, m, arg, ExpectOutcome(m, value, live[m]))
  /\ MonitorReset(m, live[m], live[m])
  /\ hist' = Accepted(m)
  /\ UNCHANGED <<exceptions, mode, monRun, pc, countVars, cur, aggVars, live,
                 snapshot, found, endDrift, threw>>

\* expect(value) as one step: fetch, adjust, compare, and accept on a match.
\* `op` and `arg` name the call the test made.
ExpectAs(op, m, arg, value) ==
  /\ InBody
  /\ last' = Done(op, m, arg, ExpectOutcome(m, value, live[m]))
  /\ IF ExpectOutcome(m, value, live[m]) = "ok"
       THEN MonitorReset(m, live[m], live[m]) /\ hist' = Accepted(m)
       ELSE UNCHANGED <<monVars, hist>>
  /\ UNCHANGED <<exceptions, mode, monRun, pc, countVars, cur, aggVars, live, snapshot,
                 found, endDrift, threw>>

\* An expectation that throws before it fetches anything.
ThrowsAs(op, m, arg) ==
  /\ InBody
  /\ last' = Done(op, m, arg, "error")
  /\ UNCHANGED <<monVars, exceptions, mode, monRun, pc, countVars, cur, aggVars, live,
                 snapshot, hist, found, endDrift, threw>>

Expect(m, value) == ExpectAs("expect", m, value, value)

\* expectOnlyConsumedGas: expect(this.lastValue)
ExpectOnlyConsumedGas(m) ==
  IF IsNullish(lastValue[m]) /\ m \notin Range(contract)
    THEN ThrowsAs("expectOnlyConsumedGas", m, Null)
    ELSE ExpectAs("expectOnlyConsumedGas", m, Null, lastValue[m])

\* expectFallsBy: expect(this.lastValue.sub(dropBy))
ExpectFallsBy(m, dropBy) ==
  IF ~IsBN(lastValue[m])
    THEN ThrowsAs("expectFallsBy", m, BN(dropBy))
    ELSE ExpectAs("expectFallsBy", m, BN(dropBy), BN(lastValue[m].n - dropBy))

\* expectRisesBy: expect(this.lastValue.add(riseBy))
ExpectRisesBy(m, riseBy) ==
  IF ~IsBN(lastValue[m])
    THEN ThrowsAs("expectRisesBy", m, BN(riseBy))
    ELSE ExpectAs("expectRisesBy", m, BN(riseBy), BN(lastValue[m].n + riseBy))

\* A faulty variant: lte that is strict
LteStrict(a, b) ==
  IF ~(IsBN(a) /\ IsBN(b)) THEN "throw"
  ELSE IF a.n < b.n THEN "true" ELSE "false"

\* StateMonitor.lte and ContractState.lte: big integers only
Lte(a, b) ==
  IF ~(IsBN(a) /\ IsBN(b)) THEN "throw"
  ELSE IF a.n <= b.n THEN "true" ELSE "false"

\* How expectLessThan(value) ends for a fetched value: the value is cast
\* with asBN and compared as it is.
ExpectLessThanOutcome(m, value, actual) ==
  IF m \in failing THEN "error"
  ELSE IF Lte(actual, AsBN(value)) = "throw" THEN "error"
  ELSE IF Lte(actual, AsBN(value)) = "false" THEN "assert-fail"
  ELSE "ok"

\* The bounds a test passes to expectLessThan(): for a wallet, the accepted
\* balance less what a call sends, and less its gas too.
LessArgs(m) ==
  IF m \in Range(contract) THEN {Num(1)}
  ELSE IF ~IsBN(lastValue[m]) THEN {BN(0)}
  ELSE IF m \in Wallets THEN {BN(lastValue[m].n - d) : d \in {10, 12}}
  ELSE {BN(lastValue[m].n)}

\* expectLessThan(value) as one step: fetch, compare with lte, and on a pass
\* reset(actualValue).
ExpectLessThan(m, value) ==
  /\ InBody
  /\ last' = Done("expectLessThan", m, value, ExpectLessThanOutcome(m, value, live[m]))
  /\ IF ExpectLessThanOutcome(m, value, live[m]) = "ok"
       THEN MonitorReset(m, live[m], live[m]) /\ hist' = Accepted(m)
       ELSE UNCHANGED <<monVars, hist>>
  /\ UNCHANGED <<exceptions, mode, monRun, pc, countVars, cur, aggVars, live, snapshot,
                 found, endDrift, threw>>

\* The test calls state.assertNoExceptions() itself.
UserAssert ==
  /\ InBody
  /\ last' = IF AssertFails(exceptions)
               THEN Done("assertNoExceptions", "", Str(AssertMessage(exceptions)),
                         "dirty-error")
               ELSE Done("assertNoExceptions", "", Null, "ok")
  /\ UNCHANGED <<monVars, exceptions, mode, monRun, pc, countVars, cur, aggVars, live,
                 snapshot, ghostVars>>

\* The test calls state.checkDirty() itself.
UserCheckDirty ==
  /\ InBody
  /\ checks < MaxChecks
  /\ checks' = checks + 1
  /\ pc' = "u_check"
  /\ last' = [NoOp EXCEPT !.arg = BN(Len(exceptions))]
  /\ StartCheck
  /\ UNCHANGED <<monVars, exceptions, mode, monRun, tests, txns, cur, live, snapshot,
                 ghostVars>>

\* The test calls state.reset() itself.
UserReset ==
  /\ InBody
  /\ pc' = "u_reset"
  /\ last' = NoOp
  /\ StartReset
  /\ UNCHANGED <<monVars, exceptions, mode, monRun, countVars, cur, live, snapshot,
                 ghostVars>>

\* A transaction the test sends without a wallet monitor (plain truffle, from
\* an account that is not monitored): it mints a token to the monitored
\* account, or takes the contract over.
ExternalValue(m) ==
  IF m \in Range(contract) THEN Str("account4") ELSE BN(live[m].n + 1)

ExternalTxn(m) ==
  /\ InBody
  /\ txns < MaxTxns
  /\ m \notin Wallets
  /\ live[m] # ExternalValue(m)
  /\ txns' = txns + 1
  /\ live' = [live EXCEPT ![m] = ExternalValue(m)]
  /\ last' = Done("txn", "", Null, "ok")
  /\ UNCHANGED <<monVars, exceptions, mode, monRun, pc, tests, checks, cur, aggVars,
                 snapshot, hist, found, endDrift, threw>>

\* wallet.call(state, contractMethod, ...params) begins: await
\* state.checkDirty().
Call(w) ==
  /\ InBody
  /\ checks < MaxChecks
  /\ checks' = checks + 1
  /\ pc' = "call_check"
  /\ cur' = w
  /\ last' = NoOp
  /\ StartCheck
  /\ UNCHANGED <<monVars, exceptions, mode, monRun, tests, txns, live, snapshot, ghostVars>>

\* What a mined, successful operation sent from w does to the chain (the
\* README's setOwner): it costs w the value and the gas, and a bid that pays
\* makes w the contract's owner.
Mined(w, value, gas) ==
  [m \in Monitors |->
    IF m = w THEN BN(live[m].n - value - gas)
    ELSE IF m \in Range(contract) /\ value > 0 THEN Address(w)
    ELSE live[m]]

\* call() executes the operation: it is mined ("ok"), mined but reverted (the
\* exception carries a receipt), or fails without a receipt. The gas of a
\* receipt is folded into expectedGas.
CallExec(res, value, gas) ==
  /\ pc = "call_exec"
  /\ res = "txn-error" \/ txns < MaxTxns
  /\ value + gas <= live[cur].n
  /\ pc' = "body"
  /\ txns' = IF res = "txn-error" THEN txns ELSE txns + 1
  /\ live' = CASE res = "ok" -> Mined(cur, value, gas)
                [] res = "txn-revert" -> [live EXCEPT ![cur] = BN(live[cur].n - gas)]
                [] OTHER -> live
  /\ expectedGas' = IF res = "txn-error" THEN expectedGas
                    ELSE [expectedGas EXCEPT ![cur] = ExpectGas(expectedGas[cur], gas)]
  /\ hist' = CASE res = "ok" ->
                   [hist EXCEPT ![cur].calls = @ + 1, ![cur].sent = @ + value,
                                 ![cur].gas = @ + gas]
                [] res = "txn-revert" ->
                   [hist EXCEPT ![cur].calls = @ + 1, ![cur].gas = @ + gas]
                [] OTHER -> hist
  /\ last' = Done("call", cur, Null, res)
  /\ UNCHANGED <<lastValue, dirty, dirtyValue, exceptions, mode, monRun, tests, checks, cur,
                 aggVars, snapshot, found, endDrift, threw>>

\* --------------------------------------------- the monitors, interleaved
\* The monitor operations in flight at once: two, one overtaking the other.
Slots == {1, 2}

\* A monitor operation in flight: phase "fetch"/"rfetch" while fetchValue()
\* of the operation / of its reset() has not read the chain, "got"/"rgot"
\* when val has been read and the continuation is due, "gas" when
\* ETHAddress.reset() is due to clear expectedGas. flag: for a reset(), the
\* chain has not changed since val was read; for a checkDirty(), moreover
\* lastValue was settled when val was read and has not been written since.
\* seen: the value expect() compared, once it has.
Idle == [mon |-> "", op |-> "idle", arg |-> Null, phase |-> "", val |-> Null,
         flag |-> FALSE, seen |-> Null]

\* No checkDirty() to compare the next one with. Else: its monitor, the value
\* it fetched, what it returned, and n = 2 when the one before it on that
\* monitor had fetched the same value.
NoCheck == [mon |-> "", val |-> Null, out |-> "", n |-> 0]

\* checked, after checkDirty() of task t returned out.
Checked(t, out) ==
  [mon |-> t.mon, val |-> t.val, out |-> out,
   n |-> IF checked.mon = t.mon /\ checked.val = t.val THEN 2 ELSE 1]

\* checked, after lastValue of monitor m was written.
Written(m) == IF checked.mon = m THEN NoCheck ELSE checked

\* The values the chain takes for monitor m.
Values(m) ==
  IF m \in Wallets THEN {BN(b - d) : b \in StartBalances, d \in {0, 10}}
  ELSE IF m \in Range(erc20) THEN {BN(0), BN(1)}
  ELSE Owners

\* The amounts passed to expectFallsBy and expectRisesBy: what the chain
\* moves by.
MonDeltas(m) == IF m \in Wallets THEN {10} ELSE {1}

\* The tasks, those of monitor m and of the operations ops without their flag.
Unflag(m, ops) ==
  [i \in Slots |-> IF tasks[i].mon = m /\ tasks[i].op \in ops
                     THEN [tasks[i] EXCEPT !.flag = FALSE]
                     ELSE tasks[i]]

\* The record of a monitor operation that has just run its last statement.
Ran(t, out) ==
  [NoOp EXCEPT !.op = t.op, !.mon = t.mon, !.arg = t.seen, !.out = out,
               !.fresh = t.flag]

\* The tasks ts with a finished one taken out: a later one moves up.
Without(ts, i) ==
  [j \in Slots |-> IF j < i THEN ts[j]
                   ELSE IF j + 1 \in Slots THEN ts[j + 1]
                   ELSE Idle]

\* An operation op(arg) on monitor m is called: it runs up to its first
\* await, of fetchValue(). It takes the first free slot. Monitors share no
\* state, so the operations that overlap are those of one monitor.
MonStart(i, m, op, arg) ==
  /\ mode = "monitors"
  /\ tasks[i] = Idle
  /\ \A j \in Slots : j < i => (tasks[j] # Idle /\ tasks[j].mon = m)
  /\ started < MaxStarted
  /\ started' = started + 1
  /\ tasks' = [tasks EXCEPT ![i] =
                 [mon |-> m, op |-> op, arg |-> arg,
                  phase |-> IF op = "reset" THEN "rfetch" ELSE "fetch",
                  val |-> Null, flag |-> FALSE, seen |-> Null]]
  /\ last' = NoOp
  /\ UNCHANGED <<monVars, live, suiteVars, changes, settled, checked>>

MonReset(i, m) == MonStart(i, m, "reset", Null)

MonCheckDirty(i, m) == MonStart(i, m, "checkDirty", Null)

MonExpect(i, m, value) == MonStart(i, m, "expect", value)

\* expectOnlyConsumedGas, expectFallsBy and expectRisesBy read lastValue when
\* they are called (one that throws there starts nothing).
MonExpectOnlyConsumedGas(i, m) ==
  /\ ~(IsNullish(lastValue[m]) /\ m \notin Range(contract))
  /\ MonStart(i, m, "expectOnlyConsumedGas", lastValue[m])

MonExpectFallsBy(i, m, dropBy) ==
  /\ IsBN(lastValue[m])
  /\ MonStart(i, m, "expectFallsBy", BN(lastValue[m].n - dropBy))

MonExpectRisesBy(i, m, riseBy) ==
  /\ IsBN(lastValue[m])
  /\ MonStart(i, m, "expectRisesBy", BN(lastValue[m].n + riseBy))

\* fetchValue() of task i reads the chain.
MonFetched(i) ==
  LET t == tasks[i] IN
  /\ mode = "monitors"
  /\ t.phase \in {"fetch", "rfetch"}
  /\ tasks' = [tasks EXCEPT ![i] =
                 [t EXCEPT !.val = live[t.mon],
                           !.phase = IF t.phase = "fetch" THEN "got" ELSE "rgot",
                           !.flag = IF t.op = "checkDirty" THEN settled[t.mon]
                                    ELSE TRUE]]
  /\ last' = NoOp
  /\ UNCHANGED <<monVars, live, suiteVars, started, changes, settled, checked>>

\* checkDirty() goes on after its await: compare, set dirty and dirtyValue.
MonCheckDirtyRuns(i) ==
  LET t == tasks[i] IN
  /\ mode = "monitors"
  /\ t.op = "checkDirty" /\ t.phase = "got"
  /\ MonitorCheckDirty(t.mon, t.val)
  /\ tasks' = Without(tasks, i)
  /\ last' = Ran(t, CheckDirtyResult(t.mon, t.val))
  /\ checked' = Checked(t, CheckDirtyResult(t.mon, t.val))
  /\ UNCHANGED <<live, suiteVars, started, changes, settled>>

\* expect() goes on after its await: adjust, compare and, on a match,
\* reset(actualValue): StateMonitor.reset accepts the value at once,
\* ETHAddress.reset() starts a fetch of its own.
MonExpectRuns(i) ==
  LET t == [tasks[i] EXCEPT !.seen = tasks[i].val]
      out == ExpectOutcome(t.mon, t.arg, t.val)
  IN
  /\ mode = "monitors"
  /\ t.op \in ExpectOps /\ t.phase = "got"
  /\ IF out # "ok"
       THEN /\ tasks' = Without(tasks, i)
            /\ last' = Ran(t, out)
            /\ UNCHANGED <<monVars, settled, checked>>
       ELSE IF t.mon \in Wallets
       THEN /\ tasks' = [tasks EXCEPT ![i] = [t EXCEPT !.phase = "rfetch"]]
            /\ last' = NoOp
            /\ UNCHANGED <<monVars, settled, checked>>
       ELSE /\ BaseReset(t.mon, t.val, t.val)
            /\ tasks' = Without(Unflag(t.mon, {"checkDirty"}), i)
            /\ settled' = [settled EXCEPT ![t.mon] = FALSE]
            /\ checked' = Written(t.mon)
            /\ last' = Ran(t, out)
            /\ UNCHANGED expectedGas
  /\ UNCHANGED <<live, suiteVars, started, changes>>

\* StateMonitor.reset() goes on after its await: accept the fetched value,
\* clear dirty and dirtyValue. ETHAddress.reset() is then due.
MonResetRuns(i) ==
  LET t == tasks[i] IN
  /\ mode = "monitors"
  /\ t.phase = "rgot"
  /\ BaseReset(t.mon, Null, t.val)
  /\ settled' = [settled EXCEPT ![t.mon] = (t.op = "reset" /\ t.flag)]
  /\ checked' = Written(t.mon)
  /\ tasks' = IF t.mon \in Wallets
                THEN [Unflag(t.mon, {"checkDirty"}) EXCEPT ![i] = [t EXCEPT !.phase = "gas"]]
                ELSE Without(Unflag(t.mon, {"checkDirty"}), i)
  /\ last' = IF t.op = "reset" THEN Ran(t, "ok")
             ELSE IF t.mon \in Wallets THEN NoOp
             ELSE Ran(t, "ok")
  /\ UNCHANGED <<expectedGas, live, suiteVars, started, changes>>

\* ETHAddress.reset() goes on after `await super.reset()`.
MonResetGas(i) ==
  LET t == tasks[i] IN
  /\ mode = "monitors"
  /\ t.phase = "gas"
  /\ expectedGas' = [expectedGas EXCEPT ![t.mon] = Null]
  /\ tasks' = Without(tasks, i)
  /\ last' = IF t.op = "reset" THEN NoOp ELSE Ran(t, "ok")
  /\ UNCHANGED <<lastValue, dirty, dirtyValue, live, suiteVars, started, changes,
                 settled, checked>>

\* expectGas(gasAmount), as call() does for a receipt.
MonExpectGas(w, gasAmount) ==
  /\ mode = "monitors"
  /\ started < MaxStarted
  /\ started' = started + 1
  /\ expectedGas' = [expectedGas EXCEPT ![w] = ExpectGas(expectedGas[w], gasAmount)]
  /\ last' = NoOp
  /\ UNCHANGED <<lastValue, dirty, dirtyValue, live, suiteVars, tasks, changes,
                 settled, checked>>

\* The chain changes under monitor m (somebody's transaction is mined).
Change(m, v) ==
  /\ mode = "monitors"
  /\ changes < MaxChanges
  /\ live[m] # v
  /\ changes' = changes + 1
  /\ live' = [live EXCEPT ![m] = v]
  /\ settled' = [settled EXCEPT ![m] = FALSE]
  /\ tasks' = Unflag(m, {"reset", "checkDirty"} \cup ExpectOps)
  /\ last' = NoOp
  /\ UNCHANGED <<monVars, suiteVars, started, checked>>

\* ------------------------------------------------ functions of arguments
NoInput == [fn |-> "none", args |-> <<>>]
NoOutput == [out |-> "", val |-> Null, params |-> <<>>, msg |-> ""]

Returned(v) == [NoOutput EXCEPT !.out = "ok", !.val = v]
Threw(msg) == [NoOutput EXCEPT !.out = "throw", !.msg = msg]

\* call(): the parameters the operation is invoked with, for the parameters
\* the caller gave and this monitor's address. The last parameter, when
\* typeof says 'object' and it has no `from`, gets one (reading .from of null
\* throws a TypeError); otherwise {from: address} is pushed.
FromSet(params, address) ==
  IF Len(params) > 0
    THEN LET p == params[Len(params)] IN
         IF TypeOf(p) = "object"
           THEN IF p.k = "null"
                  THEN Threw("TypeError: Cannot read properties of null (reading 'from')")
                ELSE IF IsNullish(Get(p, "from"))
                  THEN [NoOutput EXCEPT !.out = "ok",
                          !.params = [params EXCEPT ![Len(params)] = Put(p, "from", address)]]
                ELSE [NoOutput EXCEPT !.out = "ok",
                        !.params = Append(params, Obj(<<"from">>, <<address>>))]
           ELSE [NoOutput EXCEPT !.out = "ok",
                   !.params = Append(params, Obj(<<"from">>, <<address>>))]
    ELSE [NoOutput EXCEPT !.out = "ok", !.params = <<Obj(<<"from">>, <<address>>)>>]

\* The parameter lists a test passes to call(): none; ending in a scalar, a
\* big integer, null, options without `from`, options with `from`.
ParamLists ==
  {<<>>,
   <<Str("hello")>>,
   <<Str("account4"), BN(5)>>,
   <<BN(5), Null>>,
   <<Obj(<<"value">>, <<Str("10")>>)>>,
   <<BN(5), Obj(<<"value">>, <<Str("10")>>)>>,
   <<BN(5), Obj(<<"from">>, <<Str("account4")>>)>>,
   <<BN(5), Obj(<<"from", "value">>, <<Null, Str("10")>>)>>}

\* call(state, contractMethod, ...params) of wallet w prepares its parameters.
CallParams(w, params) ==
  /\ mode = "functions"
  /\ input' = [fn |-> "call", args |-> <<Address(w), params>>]
  /\ output' = FromSet(params, Address(w))
  /\ UNCHANGED stateVars

\* The string whose split(".") gives these parts
RECURSIVE Joined(_)
Joined(parts) ==
  IF Len(parts) = 0 THEN ""
  ELSE IF Len(parts) = 1 THEN parts[1]
  ELSE Joined(SubSeq(parts, 1, Len(parts) - 1)) \o "." \o parts[Len(parts)]

\* A keypath string, kept with the parts keypath.split(".") gives
Keypath(parts) == [k |-> "string", n |-> 0, s |-> Joined(parts), parts |-> parts]

\* The loop of resolveKeypath from part i on, current being what the parts
\* before it reached. A lookup on a string, a number, a boolean or a big
\* integer finds no such property.
RECURSIVE ResolveFrom(_, _, _)
ResolveFrom(keypath, current, i) ==
  IF i > Len(keypath.parts) THEN Returned(current)
  ELSE LET next == Get(current, keypath.parts[i]) IN
       IF IsNullish(next)
         THEN Threw("Error resolving keypath(" \o keypath.s
                      \o ") - Got undefined at ." \o keypath.parts[i])
         ELSE ResolveFrom(keypath, next, i + 1)

\* A faulty variant: the error names the last part of the keypath
ResolveKeypathNamingLast(keypath, value) ==
  LET r == ResolveFrom(keypath, value, 1) IN
  IF r.out = "throw"
    THEN Threw("Error resolving keypath(" \o keypath.s
                 \o ") - Got undefined at ." \o keypath.parts[Len(keypath.parts)])
    ELSE r

\* resolveKeypath(keypath, value); reading a property of null throws
ResolveKeypath(keypath, value) ==
  IF value.k = "null"
    THEN Threw("TypeError: Cannot read properties of null")
    ELSE ResolveFrom(keypath, value, 1)

\* ContractState.fetchValue, for what the accessor returned and the keypath
\* the monitor was made with (Null: none)
FetchValue(val, keypath) ==
  IF TypeOf(val) = "object" /\ ~IsBN(val)
    THEN IF keypath = Null
           THEN Threw("Expected non-null keypath for ContractMonitor with on-chain object.")
           ELSE ResolveKeypath(keypath, val)
    ELSE Returned(val)

\* What an accessor returns: a big integer, a string, a boolean, a number,
\* null, and decoded structs (one nested, one also exposing its field by
\* position, one whose field is null).
Nested == Obj(<<"a">>, <<Obj(<<"b">>, <<Num(42)>>)>>)
AccessorValues ==
  {BN(42), Str("account0"), Bool(TRUE), Num(42), Null,
   Nested,
   Obj(<<"0", "owner">>, <<Str("account0"), Str("account0")>>),
   Obj(<<"a", "d">>, <<Obj(<<"b", "c">>, <<BN(42), Null>>), Str("x")>>)}

\* The keypaths a ContractState is made with; Null is none.
Keypaths ==
  {Null} \cup
  {Keypath(parts) : parts \in
     {<<"a">>, <<"a", "b">>, <<"a", "c">>, <<"c", "b">>, <<"a", "b", "c">>,
      <<"owner">>, <<"0">>, <<"d">>}}

\* The values a contract monitor compares: big integers, strings, a number,
\* a boolean, decoded structs with and without the positional duplicate of
\* their field, structs whose field is of one kind or another.
Named(v) == Obj(<<"name">>, <<v>>)
Decoded(v) == Obj(<<"0", "name">>, <<v, v>>)
Compared ==
  {BN(1), BN(2), Str("x"), Str("y"), Num(1), Bool(TRUE),
   Named(Str("x")), Named(Str("y")), Decoded(Str("x")), Decoded(Str("y")),
   Named(BN(1)), Named(Num(1)), Named(Named(Str("x"))),
   Obj(<<"name", "age">>, <<Str("x"), BN(1)>>), Obj(<<"age">>, <<BN(1)>>)}

\* ContractState.equals(a, b)
Compare(a, b) ==
  /\ mode = "functions"
  /\ input' = [fn |-> "dynamicEquals", args |-> <<a, b>>]
  /\ output' = LET r == DynamicEquals(a, b) IN
               IF r = "throw"
                 THEN Threw("ContractState: Error asserting state")
                 ELSE Returned(Bool(r = "true"))
  /\ UNCHANGED stateVars

\* fetchValue() of a contract monitor with this keypath, the accessor
\* returning val
Fetch(val, keypath) ==
  /\ mode = "functions"
  /\ input' = [fn |-> "fetchValue", args |-> <<val, keypath>>]
  /\ output' = FetchValue(val, keypath)
  /\ UNCHANGED stateVars

\* ------------------------------------------------------ the specifications
\* The state after the suite has built its DappState (README: monitors made
\* without an initial value).
Constructed ==
  /\ live \in {[m \in Monitors |->
                 IF m \in Wallets THEN BN(b)
                 ELSE IF m \in Range(erc20) THEN BN(0)
                 ELSE Str("account4")] : b \in StartBalances}
  /\ lastValue = [m \in Monitors |-> IF m \in Range(contract) THEN Null ELSE Undefined]
  /\ dirty = [m \in Monitors |-> FALSE]
  /\ dirtyValue = [m \in Monitors |-> Null]
  /\ expectedGas = [w \in Wallets |-> Null]
  /\ exceptions = <<>>
  /\ pc = "beforeEach"
  /\ tests = 0
  /\ txns = 0
  /\ checks = 0
  /\ cur = wallets[1]
  /\ aggGroup = 0
  /\ aggTodo = {}
  /\ aggRes = Pending
  /\ aggErr = ""
  /\ late = NoLate
  /\ failing = {}
  /\ snapshot = live
  /\ last = NoOp
  /\ hist = [w \in Wallets |-> H0]
  /\ found = FALSE
  /\ endDrift = {}
  /\ threw = FALSE
  /\ tasks = [i \in Slots |-> Idle]
  /\ started = 0
  /\ changes = 0
  /\ settled = [m \in Monitors |-> FALSE]
  /\ checked = NoCheck
  /\ input = NoInput
  /\ output = NoOutput

Init == Constructed /\ mode = "stateful"
InitDapp == Constructed /\ mode = "describeDapp"

\* What the wrappers share: beforeEach, the aggregator's passes and the
\* operations of a test body.
Run ==
  \/ BeforeEach
  \/ \E m \in Monitors : AggResetMonitor(m)
  \/ \E m \in Monitors : AggCheckMonitor(m)
  \/ AggCheckReturn
  \/ \E m \in Monitors : \E v \in ExpectArgs(m) : Expect(m, v)
  \/ \E m \in Monitors : ExpectOnlyConsumedGas(m)
  \/ \E m \in Monitors : \E d \in FallDeltas(m) : ExpectFallsBy(m, d)
  \/ \E m \in Monitors : \E d \in RiseDeltas(m) : ExpectRisesBy(m, d)
  \/ \E m \in Monitors : \E v \in LessArgs(m) : ExpectLessThan(m, v)
  \/ UserAssert
  \/ UserCheckDirty
  \/ UserReset
  \/ \E m \in Monitors : ExternalTxn(m)
  \/ \E w \in Wallets : Call(w)
  \/ \E res \in Outcomes : \E value \in CallValues : \E gas \in GasCosts :
       CallExec(res, value, gas)
  \/ BodyReturns
  \/ BodyThrows

\* A suite run by contract.stateful
Next == Run \/ StatefulAfterEach
Spec == Init /\ [][Next]_vars

\* A suite run by describeDapp
NextDapp == Run \/ DappAfterEach
SpecDapp == InitDapp /\ [][NextDapp]_vars

\* The script reverts the chain to its snapshot (revertToSnapshot).
UserRevert ==
  /\ mode = "aggregator"
  /\ InBody
  /\ live # snapshot
  /\ Revert
  /\ last' = Done("revert", "", Null, "ok")
  /\ UNCHANGED <<monVars, exceptions, mode, monRun, pc, countVars, cur, aggVars,
                 snapshot, ghostVars>>

\* The fetches of the monitors in F start to fail, those of the others work
\* (again): the node is unreachable, an accessor reverts.
Outage(F) ==
  /\ mode = "aggregator"
  /\ pc \in {"body"} \cup ResetPcs \cup CheckPcs
  /\ F # failing
  /\ failing' = F
  /\ UNCHANGED <<live, monVars, exceptions, mode, pc, countVars, cur, aggVars,
                 snapshot, last, ghostVars, tasks, started, changes, settled,
                 checked, funVars>>

\* The aggregator alone: a script that awaits reset() and then calls the
\* aggregator and its monitors, while fetches fail and work again
InitAgg == Constructed /\ mode = "aggregator"
NextAgg ==
  \/ BeforeEach
  \/ \E m \in Monitors : AggResetMonitor(m)
  \/ \E m \in Monitors : AggCheckMonitor(m)
  \/ \E m \in Monitors : LateCheckMonitor(m)
  \/ AggCheckReturn
  \/ UserAssert
  \/ UserCheckDirty
  \/ UserReset
  \/ UserRevert
  \/ \E m \in Monitors : ExternalTxn(m)
  \/ \E F \in {{}} \cup {{m} : m \in Monitors} : Outage(F)
SpecAgg == InitAgg /\ [][NextAgg]_vars

\* The monitors alone, their operations interleaved
InitMon == Constructed /\ mode = "monitors"
NextMon ==
  \/ \E i \in Slots : \E m \in Monitors : MonReset(i, m)
  \/ \E i \in Slots : \E m \in Monitors : MonCheckDirty(i, m)
  \/ \E i \in Slots : \E m \in Monitors : \E v \in Values(m) : MonExpect(i, m, v)
  \/ \E i \in Slots : \E m \in Monitors : MonExpectOnlyConsumedGas(i, m)
  \/ \E i \in Slots : \E m \in Monitors : \E d \in MonDeltas(m) : MonExpectFallsBy(i, m, d)
  \/ \E i \in Slots : \E m \in Monitors : \E d \in MonDeltas(m) : MonExpectRisesBy(i, m, d)
  \/ \E i \in Slots : MonFetched(i)
  \/ \E i \in Slots : MonCheckDirtyRuns(i)
  \/ \E i \in Slots : MonExpectRuns(i)
  \/ \E i \in Slots : MonResetRuns(i)
  \/ \E i \in Slots : MonResetGas(i)
  \/ \E w \in Wallets : \E g \in GasCosts \ {0} : MonExpectGas(w, g)
  \/ \E m \in Monitors : \E v \in Values(m) : Change(m, v)
SpecMon == InitMon /\ [][NextMon]_vars

\* The functions of arguments alone
InitFun == Constructed /\ mode = "functions"
NextFun ==
  \/ \E w \in Wallets : \E params \in ParamLists : CallParams(w, params)
  \/ \E val \in AccessorValues : \E keypath \in Keypaths : Fetch(val, keypath)
  \/ \E a \in Compared : \E b \in Compared : Compare(a, b)
SpecFun == InitFun /\ [][NextFun]_vars

\* ================================================================== claims
\* The test body has just completed operation op (nothing has run since).
JustDid(op) == pc = "body" /\ last.op = op

\* A wallet on which exactly one mined call was made since its lastValue was
\* accepted, as recorded when the operation `last` began.
OneCall == last.mon \in Wallets /\ last.pre.calls = 1

\* C1: a wallet monitor reset at balance B, then one mined call through it
\* that sends value v and costs gas g: expectFallsBy(v) passes and leaves
\* lastValue equal to the live balance, B - v - g.
C1_FallsByValuePasses ==
  (JustDid("expectFallsBy") /\ OneCall /\ last.arg = BN(last.pre.sent))
    => /\ last.out = "ok"
       /\ lastValue[last.mon] = live[last.mon]
       /\ live[last.mon] = BN(last.pre.base.n - last.pre.sent - last.pre.gas)

C1_Witness ==
  /\ JustDid("expectFallsBy") /\ OneCall
  /\ last.pre.sent > 0 /\ last.pre.gas > 0
  /\ last.arg = BN(last.pre.sent)
  /\ last.out = "ok"

\* C2 as stated: a wallet reset at 100, one mined call with gas g > 0 and value
\* v: expect(100 - v) fails with an assertion error.
C2_ExpectIgnoringGasFails ==
  (JustDid("expect") /\ OneCall /\ last.pre.base = BN(100) /\ last.pre.gas > 0
     /\ last.arg = BN(100 - last.pre.sent))
    => last.out = "assert-fail"

\* C2 amended: expect() subtracts the expected gas as expectFallsBy does, so
\* expect(100 - v) passes, and it is expect(100 - v - g), the live balance
\* itself, that fails with an assertion error.
C2_ExpectIsGasAdjusted ==
  (JustDid("expect") /\ OneCall /\ last.pre.base = BN(100) /\ last.pre.gas > 0)
    => /\ last.arg = BN(100 - last.pre.sent) => last.out = "ok"
       /\ last.arg = BN(100 - last.pre.sent - last.pre.gas) => last.out = "assert-fail"

C2_Witness ==
  /\ JustDid("expect") /\ OneCall /\ last.pre.base = BN(100) /\ last.pre.gas > 0
  /\ last.pre.sent > 0
  /\ last.arg = BN(100 - last.pre.sent)
  /\ last.out = "ok"
  /\ lastValue[last.mon] = BN(100 - last.pre.sent - last.pre.gas)

\* The end-to-end scenario: reset at 100, one mined call sending 10 for gas 2.
Scenario ==
  /\ last.mon \in Wallets
  /\ last.pre = [base |-> BN(100), calls |-> 1, sent |-> 10, gas |-> 2]

\* C3 as stated: in the scenario, expectFallsBy(12) passes.
C3_FallsBy12Passes ==
  (JustDid("expectFallsBy") /\ Scenario /\ last.arg = BN(12)) => last.out = "ok"

\* C3 amended: in the scenario the live balance is 88 and it is
\* expectFallsBy(10), the value sent, that passes (the gas is subtracted by
\* adjustExpectation); expectFallsBy(12) fails with an assertion error.
C3_FallsBy10Passes ==
  (JustDid("expectFallsBy") /\ Scenario)
    => /\ live[last.mon] = BN(88)
       /\ last.arg = BN(10) => (last.out = "ok" /\ lastValue[last.mon] = BN(88))
       /\ last.arg = BN(12) => last.out = "assert-fail"

C3_Witness ==
  /\ JustDid("expectFallsBy") /\ Scenario
  /\ last.arg = BN(10)
  /\ last.out = "ok"
  /\ lastValue[last.mon] = BN(88)

\* C4: while call() is checking an aggregator some monitor of which has
\* drifted, the operation is never executed: the chain and expectedGas stay
\* as they are, and call() ends with the dirty-state error.
C4_DirtyCallRejected ==
  [][(pc = "call_check" /\ Drift # {})
       => /\ pc' \in {"call_check", "body"}
          /\ live' = live
          /\ expectedGas' = expectedGas
          /\ pc' = "body" => (last'.op = "call" /\ last'.out = "dirty-error")]_vars

\* a second call rejected for the change the first call left unasserted
C4_Witness ==
  /\ JustDid("call") /\ last.out = "dirty-error"
  /\ last.pre.calls = 1
  /\ Drift # {}

\* C5: under contract.stateful, a test that ends with some monitored value
\* drifted makes afterEach fail with the dirty-state error, and every test
\* body starts with the aggregator reset.
C5_DirtyTestFailsHook ==
  /\ (last.op = "afterEach" /\ endDrift # {}) => last.out = "dirty-error"
  /\ (pc = "body" /\ last.op = "none")
       => /\ Drift = {}
          /\ exceptions = <<>>
          /\ \A m \in Monitors : ~dirty[m]
          /\ \A w \in Wallets : IsNullish(expectedGas[w])

C5_Witness ==
  /\ pc = "aborted"
  /\ last = Hook("afterEach", "dirty-error")
  /\ endDrift # {}
  /\ ~threw

\* C6: under describeDapp, a test whose body did not fail and that ends with
\* some monitored value drifted makes afterEach fail with the dirty-state
\* error.
C6_DappDirtyTestFailsHook ==
  (last.op = "afterEach" /\ endDrift # {} /\ ~threw) => last.out = "dirty-error"

\* The diagnostic for monitor m, its accepted value and the live value.
Text(m) ==
  Type(m) \o "." \o m \o ": un-asserted state change detected ("
    \o SerializeValue(m, lastValue[m]) \o ") => (" \o SerializeValue(m, live[m]) \o ")"

\* C7 as stated: after a checkDirty() that found drift in exactly one
\* monitor, exceptions holds exactly one entry, whatever came before.
C7_ExactlyOneEntry ==
  (JustDid("checkDirty") /\ Cardinality(Drift) = 1)
    => exceptions = <<Text(CHOOSE m \in Drift : TRUE)>>

\* C7 amended: such a checkDirty() appends exactly one entry, with the kind,
\* name, serialized lastValue and serialized drifted value of the monitor;
\* exceptions then holds exactly one entry if it was empty when the pass
\* began (entries of an earlier checkDirty() stay until reset()).
C7_ExactlyOneEntryAppended ==
  (JustDid("checkDirty") /\ Cardinality(Drift) = 1)
    => /\ Len(exceptions) = last.arg.n + 1
       /\ exceptions[Len(exceptions)] = Text(CHOOSE m \in Drift : TRUE)

C7_Witness ==
  /\ JustDid("checkDirty")
  /\ Drift = {"account0"}
  /\ last.arg = BN(0)
  /\ exceptions = <<"eth-wallet.account0: un-asserted state change detected (100) => (88)">>

\* C8: exceptions is non-empty only if an aggregator checkDirty() found drift
\* since the last completed reset(); a completed reset() leaves it empty; and
\* only checkDirty() adds to it.
C8_ExceptionsWindow ==
  /\ [](Len(exceptions) > 0 => found)
  /\ []((JustDid("reset") \/ JustDid("none") \/ last = Hook("afterEach", "ok"))
          => exceptions = <<>>)
  /\ [][Len(exceptions') > Len(exceptions) => pc \in CheckPcs]_vars

\* the test resets the aggregator inside the window
C8_Witness ==
  /\ pc = "u_reset"
  /\ Len(exceptions) > 0
  /\ found

C10_CleanAfterReset ==
  (last.op = "checkDirty" /\ last.fresh)
    => (last.out = "false" /\ ~dirty[last.mon])

\* such a checkDirty() on a monitor that was dirty before the reset()
C10_Witness ==
  /\ last.op = "checkDirty" /\ last.fresh
  /\ last.out = "false"
  /\ changes > 0
  /\ dirtyValue[last.mon] = False
  /\ lastValue[last.mon] \notin {BN(b) : b \in StartBalances}

\* Task i is a checkDirty() about to go on, the checkDirty() before it on
\* the same monitor having fetched the same value.
Rechecks(i) ==
  /\ tasks[i].op = "checkDirty" /\ tasks[i].phase = "got"
  /\ checked.mon = tasks[i].mon
  /\ checked.val = tasks[i].val

\* C11: checkDirty() never changes lastValue, and of two consecutive
\* checkDirty() of a monitor that fetch the same value the second returns
\* what the first returned (false when the value equals lastValue) and
\* leaves lastValue, dirty and dirtyValue as the first left them.
C11_CheckDirtyIdempotent ==
  [][\A i \in Slots :
       /\ MonCheckDirtyRuns(i) => lastValue' = lastValue
       /\ (MonCheckDirtyRuns(i) /\ Rechecks(i))
            => /\ last'.out = checked.out
               /\ UNCHANGED <<lastValue, dirty, dirtyValue>>
               /\ Equals(tasks[i].mon, tasks[i].val, lastValue[tasks[i].mon]) = "true"
                    => last'.out = "false"]_vars

\* a second checkDirty() that found the same drift
C11_Witness ==
  /\ last.op = "checkDirty" /\ last.out = "true"
  /\ checked.n = 2
  /\ dirty[last.mon]
  /\ dirtyValue[last.mon] = checked.val

\* C12: when an expect*() has passed, alone on its monitor, lastValue is the
\* value it fetched and compared and dirty is false, however the chain
\* changed meanwhile.
C12_ExpectAcceptsCompared ==
  (last.op \in ExpectOps /\ last.out = "ok" /\ started = 1)
    => (lastValue[last.mon] = last.arg /\ ~dirty[last.mon])

\* C13: an expect*() that finds the fetched value different from the adjusted
\* expected value, or of another kind, fails and leaves lastValue, dirty,
\* dirtyValue and expectedGas as they were.
C13_FailedExpectChangesNothing ==
  [][(pc = "body" /\ last'.op \in ExpectOps /\ last'.out # "ok")
       => UNCHANGED <<lastValue, dirty, dirtyValue, expectedGas>>]_vars

\* a failed expectation on a wallet that is dirty and expects gas
C13_Witness ==
  /\ pc = "body"
  /\ last.op \in ExpectOps /\ last.out = "assert-fail"
  /\ last.mon \in Wallets
  /\ dirty[last.mon]
  /\ ~IsNullish(expectedGas[last.mon])

\* The line of the k-th diagnostic of exceptions in the message.
Line(k) == "#" \o ToString(k - 1) \o ": " \o exceptions[k]

\* The lines from the k-th on, in order.
RECURSIVE LinesFrom(_)
LinesFrom(k) ==
  IF k > Len(exceptions) THEN "" ELSE "\n" \o Line(k) \o LinesFrom(k + 1)

\* C14: assertNoExceptions() fails exactly when exceptions is not empty; the
\* message then lists every entry once, numbered in the order of the list;
\* failing or not, it leaves exceptions and every monitor as they were.
C14_AssertNoExceptionsFrame ==
  [][(pc = "body" /\ last'.op = "assertNoExceptions")
       => /\ last'.out = "dirty-error" <=> Len(exceptions) > 0
          /\ last'.out = "ok" <=> Len(exceptions) = 0
          /\ Len(exceptions) > 0
               => last'.arg.s = "The following exceptions occurred:" \o LinesFrom(1)
          /\ UNCHANGED <<exceptions, lastValue, dirty, dirtyValue, expectedGas>>]_vars

\* a failure that lists two different diagnostics
C14_Witness ==
  /\ JustDid("assertNoExceptions") /\ last.out = "dirty-error"
  /\ Len(exceptions) = 2
  /\ exceptions[1] # exceptions[2]
  /\ \E m \in Monitors : dirty[m]

\* The gas a wallet expects, as a number.
GasExpected(eg) == IF IsNullish(eg) THEN 0 ELSE eg.n

\* C15: when call() executes the operation, a receipt's gas (of the result,
\* or carried by the failure) is added to expectedGas exactly once and the
\* result is returned / the failure re-raised; a failure without a receipt
\* is re-raised with expectedGas unchanged.
C15_GasFolding ==
  [][pc = "call_exec"
       => /\ last'.op = "call" /\ last'.mon = cur /\ last'.out \in Outcomes
          /\ last'.out \in {"ok", "txn-revert"}
               => /\ ~IsNullish(expectedGas'[cur])
                  /\ expectedGas'[cur].n
                       = GasExpected(expectedGas[cur]) + (hist'[cur].gas - hist[cur].gas)
                  /\ live[cur].n - live'[cur].n >= hist'[cur].gas - hist[cur].gas
          /\ last'.out = "txn-error" => expectedGas' = expectedGas /\ live' = live]_vars

\* a failure that was mined: its gas is expected
C15_Witness ==
  /\ JustDid("call") /\ last.out = "txn-revert"
  /\ expectedGas[last.mon] = BN(2)
  /\ live[last.mon] = BN(98)

\* The caller's application-level parameters: all but trailing options.
AppParams(params) ==
  IF Len(params) > 0 /\ IsObj(params[Len(params)])
    THEN SubSeq(params, 1, Len(params) - 1)
    ELSE params

\* C16: for every parameter list, call() invokes the operation with a final
\* options argument whose `from` is this monitor's address, after all the
\* caller's application-level parameters, in order and unmodified.
C16_FromIsSet ==
  input.fn = "call"
    => LET address == input.args[1]
           given == AppParams(input.args[2])
           passed == output.params
       IN /\ output.out = "ok"
          /\ Len(passed) > Len(given)
          /\ IsObj(passed[Len(passed)])
          /\ Get(passed[Len(passed)], "from") = address
          /\ SubSeq(passed, 1, Len(given)) = given

\* What descending the first i parts of a keypath from a value reaches;
\* undefined once a part finds nothing.
RECURSIVE Reached(_, _, _)
Reached(value, parts, i) ==
  IF i = 0 THEN value
  ELSE LET before == Reached(value, parts, i - 1) IN
       IF IsNullish(before) THEN Undefined ELSE Get(before, parts[i])

IsScalar(v) == v.k \in {"string", "number", "boolean", "bn"}

\* C17: fetch returns a scalar or a big integer unchanged; of a structured
\* value with a keypath it returns what descending one field per part
\* reaches, and fails naming the first part whose lookup yields nothing; of
\* a structured value without a keypath it fails.
C17_FetchResolvesKeypath ==
  input.fn = "fetchValue"
    => LET val == input.args[1]
           keypath == input.args[2]
           parts == IF keypath = Null THEN <<>> ELSE keypath.parts
       IN /\ IsScalar(val) => output = Returned(val)
          /\ (IsObj(val) /\ keypath = Null) => output.out = "throw"
          /\ (IsObj(val) /\ keypath # Null) =>
               LET missing == {i \in 1..Len(parts) : IsNullish(Reached(val, parts, i))}
               IN IF missing = {}
                    THEN output = Returned(Reached(val, parts, Len(parts)))
                    ELSE LET first == CHOOSE i \in missing : \A j \in missing : i <= j
                         IN /\ output.out = "throw"
                            /\ output.msg = "Error resolving keypath(" \o Joined(parts)
                                 \o ") - Got undefined at ." \o parts[first]

\* {a: {b: 42}} with "a.c": the error names c, not the last or another part;
\* with "a.b" the fetch gave 42
C17_Witness ==
  /\ input = [fn |-> "fetchValue", args |-> <<Nested, Keypath(<<"a", "c">>)>>]
  /\ output.msg = "Error resolving keypath(a.c) - Got undefined at .c"
  /\ FetchValue(Nested, Keypath(<<"a", "b">>)) = Returned(Num(42))

CompareOf(a, b) == input = [fn |-> "dynamicEquals", args |-> <<a, b>>]

\* C18: {name: "x", 0: "x"} compares equal to {name: "x"}, in either
\* argument order, and {name: "x"} and {name: "y"} compare unequal.
C18_PositionalDuplicateIgnored ==
  /\ CompareOf(Decoded(Str("x")), Named(Str("x"))) => output = Returned(Bool(TRUE))
  /\ CompareOf(Named(Str("x")), Decoded(Str("x"))) => output = Returned(Bool(TRUE))
  /\ CompareOf(Named(Str("x")), Named(Str("y"))) => output = Returned(Bool(FALSE))

\* The basic kind of a compared value
Kind(v) == v.k

\* The comparison reaches two values of different kinds: at the top level,
\* or at the first key the walk compares.
RECURSIVE KindsDiffer(_, _)
KindsDiffer(a, b) ==
  \/ Kind(a) # Kind(b)
  \/ /\ IsObj(a) /\ IsObj(b)
     /\ Len(a.keys) = 1 /\ a.keys = b.keys
     /\ KindsDiffer(a.vals[1], b.vals[1])

\* C19: whenever the kinds of the two values (big integer, string, number,
\* boolean, structured record) differ, at the top level or at a key the
\* recursion reaches, the comparison throws and returns no boolean.
C19_DifferentKindsThrow ==
  (input.fn = "dynamicEquals" /\ KindsDiffer(input.args[1], input.args[2]))
    => output.out = "throw"

\* The monitors this step starts inside the aggregator
Starts == aggTodo' \ aggTodo

C21_HardErrorAfterAllSettled ==
  (JustDid("checkDirty") /\ last.out = "hard-error")
    => /\ \E m \in Monitors : last.arg = Str(FailedMessage(m))
       /\ late.todo = {}

\* C22: the step in which reset() returns or throws leaves exceptions empty,
\* and a reset() that throws names the first failing monitor of the group
\* that failed.
C22_ResetEmptiesExceptions ==
  [][(pc \in ResetPcs /\ pc' \notin ResetPcs)
       => /\ exceptions' = <<>>
          /\ (last'.op = "reset" /\ last'.out = "hard-error")
               => (last'.mon \in failing /\ last'.arg = Str(FailedMessage(last'.mon)))]_vars

\* C23: a monitor whose dirty flag is false holds no drifted value:
\* dirtyValue is null (as constructed) or false (as reset leaves it).
C23_DirtyValueOnlyWhileDirty ==
  \A m \in Monitors : ~dirty[m] => dirtyValue[m] \in {Null, False}

C25_ExpectedGasIsSum ==
  /\ \A w \in Wallets :
       /\ GasExpected(expectedGas[w]) = hist[w].gas
       /\ hist[w].calls = 0 => expectedGas[w] = Null
  /\ (JustDid("expectOnlyConsumedGas") /\ last.mon \in Wallets /\ last.pre.calls = 0)
       => /\ last.out = "ok"
          /\ lastValue[last.mon] = last.pre.base

\* The gas of a call was compensated by one passing expectation, which left
\* lastValue at the live balance 88; the expectOnlyConsumedGas after it
\* passed against 88.
C25_Witness ==
  /\ JustDid("expectOnlyConsumedGas")
  /\ last.mon \in Wallets
  /\ last.pre.calls = 0
  /\ last.pre.base = BN(88)
  /\ last.out = "ok"
  /\ expectedGas[last.mon] = Null

\* What the comparison that ran last gave, as dynamicEquals tells it
Outcome ==
  IF output.out = "throw" THEN "throw"
  ELSE IF output.val = Bool(TRUE) THEN "true" ELSE "false"

\* C26: equals(a, b) and equals(b, a) give the same outcome (both true, both
\* false, or both an error), and equals(a, a) is true.
C26_SymmetricReflexive ==
  input.fn = "dynamicEquals"
    => LET a == input.args[1]
           b == input.args[2]
       IN /\ DynamicEquals(b, a) = Outcome
          /\ a = b => Outcome = "true"

\* The monitors whose dirty flag is set
Dirty == {m \in Monitors : dirty[m]}

\* C27 as stated: after a checkDirty() that completed without a hard error,
\* exceptions has as many entries as there are dirty monitors.
C27_ExceptionsCountDirty ==
  (JustDid("checkDirty") /\ last.out = "ok") => Len(exceptions) = Cardinality(Dirty)

\* C27 amended: such a checkDirty() has added one entry per dirty monitor to
\* the entries that were there when it began; entries leave the list only
\* in a reset(), not when an expectation accepts the drift; and
\* assertNoExceptions() fails whenever the list is not empty, dirty
\* monitors or not.
C27_ExceptionsAccumulate ==
  /\ []((JustDid("checkDirty") /\ last.out = "ok")
          => Len(exceptions) = last.arg.n + Cardinality(Dirty))
  /\ [](JustDid("assertNoExceptions")
          => (last.out = "dirty-error" <=> Len(exceptions) > 0))
  /\ [][exceptions' # exceptions
          => \/ pc \in CheckPcs /\ Len(exceptions') > Len(exceptions)
                  /\ SubSeq(exceptions', 1, Len(exceptions)) = exceptions
             \/ pc \in ResetPcs /\ exceptions' = <<>>]_vars

\* A drift was recorded by one checkDirty() and then accepted by a passing
\* expectation; the checkDirty() after it found every monitor clean, and the
\* entry is still there.
C27_Witness ==
  /\ JustDid("checkDirty") /\ last.out = "ok"
  /\ last.arg = BN(1)
  /\ Len(exceptions) = 1
  /\ Dirty = {}
  /\ Drift = {}
  /\ AssertFails(exceptions)

====
